---- MODULE Spec2Model ----
(***************************************************************************)
(* markit: convert a markdown file to other formats by driving pandoc.     *)
(*                                                                         *)
(* A model of src/markit/markit.py.  Strings are sequences of one-character*)
(* strings, so that startswith, split, format and splitext are computed    *)
(* the way Python computes them.  An optional value (Python's None or a    *)
(* value) is a sequence of length 0 or 1.                                  *)
(*                                                                         *)
(* The progress lines the program prints (and with them the effect of -V)  *)
(* are not modelled; the help text is (helpText).  An external process is  *)
(* modelled by its start, its exit status and its captured output; a       *)
(* process that cannot be started makes subprocess.run raise.  The         *)
(* environment modifies the watched file and interrupts the program while  *)
(* it is in watch mode; the file is never removed.                         *)
(***************************************************************************)
EXTENDS Integers, Sequences, FiniteSets, TLC

\* ------------------------------------------------------------------ bounds

\* Longest command line (number of tokens after the program name).
MaxArgs == 3
\* Most sections in the configuration file.
MaxSections == 2
\* Number of distinct modification times the watched file can take.
MaxTime == 2
\* Number of nested run_continuously frames the interpreter allows before it
\* raises RecursionError (CPython: sys.getrecursionlimit(), 1000 by default;
\* scaled down here).
RecursionLimit == 3

\* ----------------------------------------------------------- Python values

None == <<>>
Some(v) == <<v>>
IsNone(o) == o = <<>>
Val(o) == o[1]

\* The characters in use, in ascending code point order.
Ascii == <<" ", "-", ".", "/", ";", "V", "_", "a", "b", "c", "d", "e", "f", "h",
           "i", "k", "l", "m", "n", "o", "p", "r", "s", "t", "u", "v", "w", "x",
           "y", "z", "{", "}">>

Ord(c) == CHOOSE i \in 1..Len(Ascii) : Ascii[i] = c

\* str.__lt__: lexicographic by code point.
RECURSIVE StrLess(_, _)
StrLess(s, t) ==
    IF t = <<>> THEN FALSE
    ELSE IF s = <<>> THEN TRUE
    ELSE IF s[1] # t[1] THEN Ord(s[1]) < Ord(t[1])
    ELSE StrLess(Tail(s), Tail(t))

\* str.startswith(c) for a one-character prefix.
StartsWith(s, c) == Len(s) > 0 /\ s[1] = c

\* x in seq
In(x, seq) == \E i \in 1..Len(seq) : seq[i] = x

\* list.remove(x): drops the first occurrence (x is in seq).
Remove(seq, x) ==
    LET i == CHOOSE j \in 1..Len(seq) :
                 seq[j] = x /\ \A l \in 1..(j - 1) : seq[l] # x
    IN  SubSeq(seq, 1, i - 1) \o SubSeq(seq, i + 1, Len(seq))

\* str.split(sep) for a one-character separator: keeps empty pieces.
RECURSIVE SplitOn(_, _)
SplitOn(s, sep) ==
    IF \E i \in 1..Len(s) : s[i] = sep
    THEN LET i == CHOOSE j \in 1..Len(s) :
                      s[j] = sep /\ \A l \in 1..(j - 1) : s[l] # sep
         IN  <<SubSeq(s, 1, i - 1)>> \o SplitOn(SubSeq(s, i + 1, Len(s)), sep)
    ELSE <<s>>

\* str.split(): splits on runs of whitespace and drops empty pieces.
Split(s) == SelectSeq(SplitOn(s, " "), LAMBDA t : t # <<>>)

\* s.replace(pat, val), pat not empty.
RECURSIVE Replace(_, _, _)
Replace(s, pat, val) ==
    IF Len(s) < Len(pat) THEN s
    ELSE IF SubSeq(s, 1, Len(pat)) = pat
         THEN val \o Replace(SubSeq(s, Len(pat) + 1, Len(s)), pat, val)
         ELSE <<s[1]>> \o Replace(Tail(s), pat, val)

\* s.format(key=val) for the one named replacement field the configuration
\* uses.
Format(s, key, val) == Replace(s, <<"{">> \o key \o <<"}">>, val)

\* Index of the last occurrence of c in s, 0 when there is none (rfind + 1).
RFind(s, c) ==
    IF \E i \in 1..Len(s) : s[i] = c
    THEN CHOOSE i \in 1..Len(s) :
             s[i] = c /\ \A j \in (i + 1)..Len(s) : s[j] # c
    ELSE 0

\* os.path.splitext(p)[0]: the path up to its last dot, unless that dot leads
\* the base name.
SplitExtRoot(p) ==
    LET sepIndex == RFind(p, "/")
        dotIndex == RFind(p, ".")
    IN  IF dotIndex > sepIndex
           /\ \E i \in (sepIndex + 1)..(dotIndex - 1) : p[i] # "."
        THEN SubSeq(p, 1, dotIndex - 1)
        ELSE p

\* sorted(seq) of strings.
RECURSIVE Sorted(_)
Sorted(S) ==
    IF S = {} THEN <<>>
    ELSE LET m == CHOOSE x \in S : \A y \in S \ {x} : StrLess(x, y)
         IN  <<m>> \o Sorted(S \ {m})

Range(seq) == {seq[i] : i \in 1..Len(seq)}

\* ------------------------------------------------------------ source text

\* PANDOC = 'pandoc -f markdown'.split()
PANDOC ==
    Split(<<"p", "a", "n", "d", "o", "c", " ", "-", "f", " ",
            "m", "a", "r", "k", "d", "o", "w", "n">>)

kInfile == <<"i", "n", "f", "i", "l", "e">>
kOutfile == <<"o", "u", "t", "f", "i", "l", "e">>

\* --------------------------------------------------------------- the inputs

\* Sections a configuration file is made of.  opts maps the keys the section
\* has to their raw text.
\*   [a]   extension = p / command = -s / first = x {infile};y
\*         also = v {outfile};w
SectA ==
    [name |-> <<"a">>,
     opts |-> [extension |-> <<"p">>,
               command   |-> <<"-", "s">>,
               first     |-> <<"x", " ", "{">> \o kInfile \o <<"}", ";", "y">>,
               also      |-> <<"v", " ", "{">> \o kOutfile \o <<"}", ";", "w">>]]
\*   [b]   extension = h / command = -t h
SectB ==
    [name |-> <<"b">>,
     opts |-> [extension |-> <<"h">>, command |-> <<"-", "t", " ", "h">>]]
\*   [b]   extension = h                      (no command key)
SectBNoCommand ==
    [name |-> <<"b">>, opts |-> [extension |-> <<"h">>]]
\*   [_m]  extension = t / command = -m
SectHidden ==
    [name |-> <<"_", "m">>,
     opts |-> [extension |-> <<"t">>, command |-> <<"-", "m">>]]
\*   [_m]  command = -m                       (no extension key)
SectHiddenNoExtension ==
    [name |-> <<"_", "m">>, opts |-> [command |-> <<"-", "m">>]]

SectionPool ==
    {SectA, SectB, SectBNoCommand, SectHidden, SectHiddenNoExtension}

\* Sequences of at most n elements of S.
SeqUpTo(S, n) == UNION {[1..l -> S] : l \in 0..n}

\* The configuration files: section names are unique (ConfigParser rejects a
\* duplicate section).
ConfigFiles ==
    {c \in SeqUpTo(SectionPool, MaxSections) :
        \A i, j \in 1..Len(c) : i # j => c[i].name # c[j].name}

\* Command line tokens: converter names, a markdown file, option tokens.
TokenPool ==
    {<<"a">>, <<"b">>, <<"n", ".", "m", "d">>, <<"-", "c", "V">>, <<"-", "h">>}

CommandLines == SeqUpTo(TokenPool, MaxArgs)

\* Captured standard output of a pre-command: nothing, or some bytes.
Outputs == {<<>>, <<"o">>}

\* Exit statuses of an external process.
ExitCodes == {0, 1}

\* Modification times of the watched file.
Times == 1..MaxTime

\* ---------------------------------------------------------------- the state

VARIABLES
    config,        \* the configuration file: None when it does not exist
    mtime,         \* the watched file's modification time
    CONVERTERS,    \* the registry, in insertion order: <<[name, value]>>
    arguments,     \* main: the positional tokens
    options,       \* main: the set of option characters
    pc,            \* where the program is
    inTry,         \* inside main's try block (watch mode)
    depth,         \* number of run_continuously frames on the stack
    timestamp,     \* run_continuously: the parameter
    current_timestamp,  \* run_continuously: the time last read
    ci,            \* markdown_to_other: index of the converter being run
    k,             \* markdown_to_other: index of the pre/post command
    stdin,         \* markdown_to_other: captured output of the last pre-command
    cmd,           \* markdown_to_other: the command line composed last
    running,       \* the external processes that have started and not exited
    helpText,      \* the names print_help listed, None before
    exitStatus,    \* the process's exit status, None while it runs
    cause,         \* why the process ended
    \* history, for stating the properties
    log,           \* the processes started in this run of markdown_to_other
    failed,        \* the first converter of this run a process of which exited
                   \* non-zero (its index), 0 when there is none
    selected,      \* the non-hidden registry names given on the command line
    touched,       \* names of the converters a process was ever started for
    runs,          \* number of calls of markdown_to_other
    observed,      \* number of polls that read another time than the poll before
    lastRead,      \* the time the previous poll read, None before the first
    captured,      \* the output captured last for the current converter
    dirty          \* the file changed since markdown_to_other was last called

progVars == <<CONVERTERS, arguments, options, pc, inTry, depth, timestamp,
              current_timestamp, ci, k, stdin, cmd, running, helpText,
              exitStatus, cause>>
histVars == <<log, failed, selected, touched, runs, observed, lastRead,
              captured, dirty>>
vars == <<config, mtime, progVars, histVars>>

Terminal == {"exited", "crashed"}

Init ==
    /\ config \in {None} \cup {Some(c) : c \in ConfigFiles}
    /\ mtime = 1
    /\ CONVERTERS = <<>>
    /\ arguments = <<>>
    /\ options = {}
    /\ pc = "read"
    /\ inTry = FALSE
    /\ depth = 0
    /\ timestamp = None
    /\ current_timestamp = None
    /\ ci = 0
    /\ k = 0
    /\ stdin = None
    /\ cmd = <<>>
    /\ running = {}
    /\ helpText = None
    /\ exitStatus = None
    /\ cause = "running"
    /\ log = <<>>
    /\ failed = 0
    /\ selected = {}
    /\ touched = {}
    /\ runs = 0
    /\ observed = 0
    /\ lastRead = None
    /\ captured = None
    /\ dirty = FALSE

\* An uncaught exception: traceback, non-zero exit status.
Crash(why) ==
    /\ pc' = "crashed"
    /\ cause' = why
    /\ exitStatus' = Some(1)
    /\ running' = {}

\* ------------------------------------------------------------ read_converters

\* config.sections() after config.read(config_path): read() skips a file that
\* does not exist, which leaves the parser empty.
Sections(cfg) == IF IsNone(cfg) THEN <<>> ELSE Val(cfg)

\* [c.split() for c in text.split(';')]
CommandList(text) ==
    LET parts == SplitOn(text, ";")
    IN  [i \in 1..Len(parts) |-> Split(parts[i])]

\* The dict read_converters builds for a section from the keys in keys.
ConverterDict(sec, keys) ==
    [key \in keys |->
        CASE key = "extension" -> sec.opts[key]
          [] key = "command"   -> Split(sec.opts[key])
          [] OTHER             -> CommandList(sec.opts[key])]

\* config[converter]['extension'] and config[converter]['command'] raise
\* KeyError when the section has no such key.
Malformed(sec) == ~({"extension", "command"} \subseteq DOMAIN sec.opts)

\* What the loop leaves of a section that raises: the dict setdefault stored,
\* with the extension when only the command is missing.
PartialDict(sec) ==
    ConverterDict(sec, DOMAIN sec.opts \cap {"extension"})

ReadConverters ==
    /\ pc = "read"
    /\ LET secs == Sections(config)
           bad  == {i \in 1..Len(secs) : Malformed(secs[i])}
       IN  IF bad = {}
           THEN /\ CONVERTERS' =
                       [i \in 1..Len(secs) |->
                           [name  |-> secs[i].name,
                            value |-> Some(ConverterDict(secs[i],
                                                         DOMAIN secs[i].opts))]]
                /\ pc' = "select"
                /\ UNCHANGED <<cause, exitStatus, running>>
           ELSE LET j == CHOOSE i \in bad : \A l \in bad : i <= l
                IN  /\ CONVERTERS' =
                           [i \in 1..j |->
                               [name  |-> secs[i].name,
                                value |-> IF i < j
                                          THEN Some(ConverterDict(secs[i],
                                                        DOMAIN secs[i].opts))
                                          ELSE Some(PartialDict(secs[i]))]]
                    /\ Crash("KeyError")
    /\ UNCHANGED <<config, mtime, arguments, options, inTry, depth,
                   timestamp, current_timestamp, ci, k, stdin, cmd, helpText,
                   histVars>>

\* ------------------------------------------------------------------- main

\* [a for a in sys.argv[1:] if not a.startswith('-')]
Positional(args) == SelectSeq(args, LAMBDA a : ~StartsWith(a, "-"))

\* set(''.join(a for a in sys.argv[1:] if a.startswith('-')).replace('-', ''))
OptionChars(args) ==
    UNION {Range(args[i]) : i \in {j \in 1..Len(args) : StartsWith(args[j], "-")}}
        \ {"-"}

\* format.startswith('_')
Hidden(name) == StartsWith(name, "_")

\* The loop of lines 41-47, from entry i on: a name given on the command line
\* is consumed, one that is not given is disabled, a hidden one is skipped.
RECURSIVE SelectLoop(_, _, _)
SelectLoop(i, convs, args) ==
    IF i > Len(convs) THEN [convs |-> convs, args |-> args]
    ELSE LET format == convs[i].name
         IN  IF Hidden(format) THEN SelectLoop(i + 1, convs, args)
             ELSE IF In(format, args)
                  THEN SelectLoop(i + 1, convs, Remove(args, format))
                  ELSE SelectLoop(i + 1,
                                  [convs EXCEPT ![i].value = None], args)

\* The non-hidden names of the registry that are among the positional tokens
\* of the command line argv.
Given(convs, argv) ==
    {convs[i].name : i \in {j \in 1..Len(convs) :
        ~Hidden(convs[j].name) /\ In(convs[j].name, Positional(argv))}}

\* Lines 38-47, for the command line argv (sys.argv[1:]).
Select ==
    /\ pc = "select"
    /\ \E argv \in CommandLines :
         LET r == SelectLoop(1, CONVERTERS, Positional(argv))
         IN  /\ CONVERTERS' = r.convs
             /\ arguments' = r.args
             /\ options' = OptionChars(argv)
             /\ selected' = Given(CONVERTERS, argv)
    /\ pc' = "dispatch"
    /\ UNCHANGED <<config, mtime, inTry, depth, timestamp,
                   current_timestamp, ci, k, stdin, cmd, running, helpText,
                   exitStatus, cause, log, failed, touched, runs, observed,
                   lastRead, captured, dirty>>

\* A variant that asks for help only when no positional token is left.
NeedHelpWhenEmpty(args, opts) == Len(args) = 0 \/ "h" \in opts

\* len(arguments) != 1 or 'h' in options
NeedHelp(args, opts) == Len(args) # 1 \/ "h" \in opts

\* sorted(CONVERTERS): the registry's keys, sorted.
HelpOutputs(convs) == Sorted({convs[i].name : i \in 1..Len(convs)})

\* Lines 49-51: print_help(); sys.exit(0)
Help ==
    /\ pc = "dispatch"
    /\ NeedHelp(arguments, options)
    /\ helpText' = Some(HelpOutputs(CONVERTERS))
    /\ pc' = "exited"
    /\ exitStatus' = Some(0)
    /\ cause' = "help"
    /\ UNCHANGED <<config, mtime, CONVERTERS, arguments, options, inTry,
                   depth, timestamp, current_timestamp, ci, k, stdin, cmd,
                   running, histVars>>

\* Lines 53-55: enter the try block and call run_continuously(arguments[0]),
\* timestamp defaulting to None.
StartWatch ==
    /\ pc = "dispatch"
    /\ ~NeedHelp(arguments, options)
    /\ "c" \in options
    /\ inTry' = TRUE
    /\ depth' = 1
    /\ timestamp' = None
    /\ pc' = "w_poll"
    /\ UNCHANGED <<config, mtime, CONVERTERS, arguments, options,
                   current_timestamp, ci, k, stdin, cmd, running, helpText,
                   exitStatus, cause, histVars>>

\* Entering markdown_to_other: the for loop starts before the first entry.
CallMarkdownToOther ==
    /\ pc' = "mto_for"
    /\ ci' = 0
    /\ k' = 0
    /\ runs' = runs + 1
    /\ log' = <<>>
    /\ failed' = 0
    /\ dirty' = FALSE

\* Line 59: markdown_to_other(arguments[0], 'V' in options)
StartSingle ==
    /\ pc = "dispatch"
    /\ ~NeedHelp(arguments, options)
    /\ "c" \notin options
    /\ CallMarkdownToOther
    /\ UNCHANGED <<config, mtime, CONVERTERS, arguments, options, inTry,
                   depth, timestamp, current_timestamp, stdin, cmd, running,
                   helpText, exitStatus, cause, selected, touched, observed,
                   lastRead, captured>>

\* ---------------------------------------------------------- markdown_to_other

\* converter is None
Disabled(i) == IsNone(CONVERTERS[i].value)

\* The for loop of line 65 with the continue of lines 66-67: the next entry
\* after i that is not None, 0 when the loop is over.
NextActive(i) ==
    IF \E j \in (i + 1)..Len(CONVERTERS) : ~Disabled(j)
    THEN CHOOSE j \in (i + 1)..Len(CONVERTERS) :
             ~Disabled(j) /\ \A l \in (i + 1)..(j - 1) : Disabled(l)
    ELSE 0

\* converter.get(key, dict())
Get(d, key) == IF key \in DOMAIN d THEN d[key] ELSE <<>>

name == CONVERTERS[ci].name
converter == Val(CONVERTERS[ci].value)
filename == arguments[1]

\* A variant that tests stdin is None: empty output counts as piped input.
StdinIsNone(in) == IsNone(in)

\* not stdin: None and b'' are both false.
NotStdin(in) == IsNone(in) \/ Val(in) = <<>>

\* os.path.splitext(filename)[0] + '.' + converter['extension']
outfile == SplitExtRoot(filename) \o <<".">> \o converter.extension

\* PANDOC + converter['command'] + ['-o', outfile]
MainBase == PANDOC \o converter.command \o <<<<"-", "o">>, outfile>>

\* Lines 77-79.
MainCmd == MainBase \o (IF NotStdin(stdin) THEN <<filename>> ELSE <<>>)

\* [s.format(infile=filename) for s in command]
FirstCmd ==
    LET command == Get(converter, "first")[k]
    IN  [i \in 1..Len(command) |-> Format(command[i], kInfile, filename)]

\* [s.format(outfile=outfile) for s in command]
AlsoCmd ==
    LET command == Get(converter, "also")[k]
    IN  [i \in 1..Len(command) |-> Format(command[i], kOutfile, outfile)]

\* The command line composed at the current position.
Composed ==
    CASE pc = "first" -> FirstCmd
      [] pc = "main"  -> MainCmd
      [] pc = "also"  -> AlsoCmd

\* The command run at the current position: the converter, the stage and
\* the position in the stage's list (0 for the main command).
Step == <<name, pc, IF pc = "main" THEN 0 ELSE k>>

\* The process subprocess.run starts at the current position; only the main
\* command is given input.
Process == [step |-> Step, input |-> IF pc = "main" THEN stdin ELSE None]

\* A variant with check=True: a non-zero exit status raises
\* CalledProcessError.
RunRaisesChecked(rc) == rc # 0

\* subprocess.run is called without check=True: no exit status raises.
RunRaises(rc) == FALSE

\* A variant that starts the process and does not wait for it (Popen).
DoesNotWait == FALSE

\* subprocess.run returns only when the process has exited.
Waits == TRUE

\* subprocess.run(cmd, ...) starts the process and waits for it.
StartProcess(stage) ==
    /\ pc = stage
    /\ Composed # <<>>
    /\ cmd' = Composed
    /\ running' = running \cup {Process}
    /\ log' = Append(log, Step)
    /\ touched' = touched \cup {name}
    /\ pc' = IF Waits THEN stage \o "_wait" ELSE stage \o "_done"

\* The process exits with status rc; subprocess.run returns to label next.
ProcessExits(stage, rc, next) ==
    /\ pc \in {stage \o "_wait", stage \o "_done"}
    /\ IF RunRaises(rc)
       THEN /\ Crash("CalledProcessError")
            /\ failed' = IF failed = 0 THEN ci ELSE failed
       ELSE /\ pc' = next
            /\ running' = IF Waits
                          THEN {p \in running : p.step # log[Len(log)]}
                          ELSE running
            /\ failed' = IF rc # 0 /\ failed = 0 THEN ci ELSE failed
            /\ UNCHANGED <<cause, exitStatus>>

\* Lines 65-69: the loop takes the next enabled converter, or the function
\* returns: to line 102 in watch mode, to the end of main otherwise.
ForConverter ==
    /\ pc = "mto_for"
    /\ LET j == NextActive(ci)
       IN  IF j = 0
           THEN /\ IF inTry
                   THEN /\ pc' = "w_recurse"
                        /\ UNCHANGED <<exitStatus, cause>>
                   ELSE /\ pc' = "exited"
                        /\ exitStatus' = Some(0)
                        /\ cause' = "done"
                /\ UNCHANGED <<ci, k, stdin, captured>>
           ELSE /\ ci' = j
                /\ stdin' = None
                /\ captured' = None
                /\ k' = 1
                /\ pc' = IF Len(Get(Val(CONVERTERS[j].value), "first")) > 0
                         THEN "first" ELSE "main"
                /\ UNCHANGED <<exitStatus, cause>>
    /\ UNCHANGED <<config, mtime, CONVERTERS, arguments, options, inTry,
                   depth, timestamp, current_timestamp, cmd, running, helpText,
                   log, failed, selected, touched, runs, observed, lastRead,
                   dirty>>

\* Lines 70-73: run the k-th pre-command.
StartFirst ==
    /\ StartProcess("first")
    /\ UNCHANGED <<config, mtime, CONVERTERS, arguments, options, inTry,
                   depth, timestamp, current_timestamp, ci, k, stdin, helpText,
                   exitStatus, cause, failed, selected, runs, observed,
                   lastRead, captured, dirty>>

\* Lines 73-74: the pre-command has exited; stdin = process.stdout.
ExitFirst ==
    \E rc \in ExitCodes, out \in Outputs :
        /\ ProcessExits("first", rc,
                        IF k < Len(Get(converter, "first")) THEN "first"
                        ELSE "main")
        /\ stdin' = Some(out)
        /\ captured' = Some(out)
        /\ k' = k + 1
        /\ UNCHANGED <<config, mtime, CONVERTERS, arguments, options,
                       inTry, depth, timestamp, current_timestamp, ci, cmd,
                       helpText, log, selected, touched, runs, observed,
                       lastRead, dirty>>

\* Lines 76-83: compose the main command and run it with input=stdin.
StartMain ==
    /\ StartProcess("main")
    /\ UNCHANGED <<config, mtime, CONVERTERS, arguments, options, inTry,
                   depth, timestamp, current_timestamp, ci, k, stdin, helpText,
                   exitStatus, cause, failed, selected, runs, observed,
                   lastRead, captured, dirty>>

\* Line 83 returns; line 85 starts the loop over the post-commands.
ExitMain ==
    \E rc \in ExitCodes :
        /\ ProcessExits("main", rc,
                        IF Len(Get(converter, "also")) > 0 THEN "also"
                        ELSE "mto_for")
        /\ k' = 1
        /\ UNCHANGED <<config, mtime, CONVERTERS, arguments, options,
                       inTry, depth, timestamp, current_timestamp, ci, stdin,
                       cmd, helpText, log, selected, touched, runs, observed,
                       lastRead, captured, dirty>>

\* Lines 85-88: run the k-th post-command.
StartAlso ==
    /\ StartProcess("also")
    /\ UNCHANGED <<config, mtime, CONVERTERS, arguments, options, inTry,
                   depth, timestamp, current_timestamp, ci, k, stdin, helpText,
                   exitStatus, cause, failed, selected, runs, observed,
                   lastRead, captured, dirty>>

\* Line 88 returns.
ExitAlso ==
    \E rc \in ExitCodes :
        /\ ProcessExits("also", rc,
                        IF k < Len(Get(converter, "also")) THEN "also"
                        ELSE "mto_for")
        /\ k' = k + 1
        /\ UNCHANGED <<config, mtime, CONVERTERS, arguments, options,
                       inTry, depth, timestamp, current_timestamp, ci, stdin,
                       cmd, helpText, log, selected, touched, runs, observed,
                       lastRead, captured, dirty>>

\* subprocess.run raises when the process cannot be started (the executable
\* is missing or not executable, the command is empty).  Nothing in the
\* program catches it: not markdown_to_other, and main catches
\* KeyboardInterrupt only.
LaunchFails ==
    /\ pc \in {"first", "main", "also"}
    /\ cmd' = Composed
    /\ Crash("LaunchError")
    /\ UNCHANGED <<config, mtime, CONVERTERS, arguments, options, inTry,
                   depth, timestamp, current_timestamp, ci, k, stdin, helpText,
                   histVars>>

\* ----------------------------------------------------------- run_continuously

\* A variant that converts on every poll.
ChangedAlways(current, last) == TRUE

\* current_timestamp != timestamp
Changed(current, last) == current # last

\* Lines 95-99: read the modification time; leave the loop when it differs
\* from timestamp (None in the first frame), sleep and read again otherwise.
Poll ==
    /\ pc = "w_poll"
    /\ current_timestamp' = Some(mtime)
    /\ pc' = IF Changed(Some(mtime), timestamp) THEN "w_run" ELSE "w_poll"
    /\ lastRead' = Some(mtime)
    /\ observed' = IF ~IsNone(lastRead) /\ Val(lastRead) # mtime
                   THEN observed + 1 ELSE observed
    /\ UNCHANGED <<config, mtime, CONVERTERS, arguments, options, inTry,
                   depth, timestamp, ci, k, stdin, cmd, running, helpText,
                   exitStatus, cause, log, failed, selected, touched, runs,
                   captured, dirty>>

\* Line 101: markdown_to_other(filename, verbose=verbose)
WatchConvert ==
    /\ pc = "w_run"
    /\ CallMarkdownToOther
    /\ UNCHANGED <<config, mtime, CONVERTERS, arguments, options, inTry,
                   depth, timestamp, current_timestamp, stdin, cmd, running,
                   helpText, exitStatus, cause, selected, touched, observed,
                   lastRead, captured>>

\* Line 102: the function calls itself with timestamp=current_timestamp; the
\* frames of the callers stay on the stack.
Recurse ==
    /\ pc = "w_recurse"
    /\ depth < RecursionLimit
    /\ depth' = depth + 1
    /\ timestamp' = current_timestamp
    /\ pc' = "w_poll"
    /\ UNCHANGED <<config, mtime, CONVERTERS, arguments, options, inTry,
                   current_timestamp, ci, k, stdin, cmd, running, helpText,
                   exitStatus, cause, histVars>>

\* Line 102 when the stack is full: the call raises RecursionError, which
\* main does not catch.
RecursionOverflow ==
    /\ pc = "w_recurse"
    /\ depth >= RecursionLimit
    /\ Crash("RecursionError")
    /\ UNCHANGED <<config, mtime, CONVERTERS, arguments, options, inTry,
                   depth, timestamp, current_timestamp, ci, k, stdin, cmd,
                   helpText, histVars>>

\* Lines 56-57: Ctrl-C anywhere in run_continuously raises KeyboardInterrupt,
\* which main turns into sys.exit(0).  (subprocess.run kills the process it
\* waits for.)
Interrupt ==
    /\ inTry
    /\ pc \notin Terminal
    /\ pc' = "exited"
    /\ exitStatus' = Some(0)
    /\ cause' = "KeyboardInterrupt"
    /\ running' = {}
    /\ UNCHANGED <<config, mtime, CONVERTERS, arguments, options, inTry,
                   depth, timestamp, current_timestamp, ci, k, stdin, cmd,
                   helpText, histVars>>

\* The environment: the watched file is modified.
Touch ==
    /\ inTry
    /\ pc \notin Terminal
    /\ \E t \in Times \ {mtime} : mtime' = t
    /\ dirty' = TRUE
    /\ UNCHANGED <<config, progVars, log, failed, selected, touched, runs,
                   observed, lastRead, captured>>

\* --------------------------------------------------------------------- spec

Next ==
    \/ ReadConverters
    \/ Select
    \/ Help
    \/ StartWatch
    \/ StartSingle
    \/ ForConverter
    \/ StartFirst
    \/ ExitFirst
    \/ StartMain
    \/ ExitMain
    \/ StartAlso
    \/ ExitAlso
    \/ LaunchFails
    \/ Poll
    \/ WatchConvert
    \/ Recurse
    \/ RecursionOverflow
    \/ Interrupt
    \/ Touch

Spec == Init /\ [][Next]_vars

\* --------------------------------------------------------------- properties

\* main is past the selection of lines 38-47.
SelectionDone == pc \notin {"read", "select"} /\ cause # "KeyError"

\* markdown_to_other has returned.
RunnerReturned == pc = "w_recurse" \/ (pc = "exited" /\ cause = "done")

\* The converters whose main command was started in this run, in order.
MainsStarted ==
    LET mains == SelectSeq(log, LAMBDA p : p[2] = "main")
    IN  [i \in 1..Len(mains) |-> mains[i][1]]

\* The names of the enabled registry entries, in registry order.
ActiveNames ==
    LET idx == SelectSeq([i \in 1..Len(CONVERTERS) |-> i],
                         LAMBDA i : ~Disabled(i))
    IN  [i \in 1..Len(idx) |-> CONVERTERS[idx[i]].name]

\* The processes of one converter: pre-commands, main command, post-commands.
StepsOf(i) ==
    LET d  == Val(CONVERTERS[i].value)
        nm == CONVERTERS[i].name
    IN  [j \in 1..Len(Get(d, "first")) |-> <<nm, "first", j>>]
        \o <<<<nm, "main", 0>>>>
        \o [j \in 1..Len(Get(d, "also")) |-> <<nm, "also", j>>]

\* The processes of a run of markdown_to_other, in the order the ordering
\* guarantee gives them.
RECURSIVE PlanFrom(_)
PlanFrom(i) ==
    IF i > Len(CONVERTERS) THEN <<>>
    ELSE (IF Disabled(i) THEN <<>> ELSE StepsOf(i)) \o PlanFrom(i + 1)

\* C1: with exactly one positional token left after selection, the converters
\* a command is run for are exactly the non-hidden names given on the command
\* line: every non-hidden name not given is disabled, a completed run has
\* attempted as many main conversions as names were given, and no command
\* of any other registry entry (a hidden one included) is run.
C1_OnlySelectedRun ==
    (SelectionDone /\ Len(arguments) = 1) =>
        /\ \A i \in 1..Len(CONVERTERS) :
               (~Hidden(CONVERTERS[i].name)
                    /\ CONVERTERS[i].name \notin selected) => Disabled(i)
        /\ touched \subseteq selected
        /\ RunnerReturned =>
               /\ touched = selected
               /\ Len(MainsStarted) = Cardinality(selected)

\* C2: when other than exactly one positional token is left after the
\* selection, or h is among the options, the tool prints help and exits with
\* status 0, and no external process is started at any point, also when c
\* is given.
C2_HelpWithoutProcess ==
    (SelectionDone /\ (Len(arguments) # 1 \/ "h" \in options)) =>
        /\ pc \in {"dispatch", "exited"}
        /\ runs = 0 /\ log = <<>> /\ touched = {} /\ running = {}
        /\ ~inTry
        /\ pc = "exited" =>
               /\ ~IsNone(helpText)
               /\ exitStatus = Some(0)
               /\ cause = "help"

\* C2, its case: help was printed and the tool exited although c was given
\* and exactly one positional token is left.
C2_Witness ==
    /\ pc = "exited" /\ cause = "help"
    /\ {"c", "h"} \subseteq options
    /\ Len(arguments) = 1

\* C3: the help listing shows exactly the non-hidden section names of the
\* configuration, sorted, and no hidden name.
C3_HelpListsNonHidden ==
    ~IsNone(helpText) =>
        Val(helpText) =
            Sorted({Sections(config)[i].name : i \in
                       {j \in 1..Len(Sections(config)) :
                           ~StartsWith(Sections(config)[j].name, "_")}})

\* C4 as stated: the main command ends with the source file path if and only
\* if the converter has no first entry, whatever the pre-commands printed.
C4_FilePathIffNoFirst ==
    pc = "main_wait" =>
        (cmd[Len(cmd)] = filename <=> Get(converter, "first") = <<>>)

\* C4 as amended: the source file path is appended as the last argument,
\* after the output file, if and only if there is no first entry or the
\* output captured from the last pre-command is empty; with a first entry all
\* pre-commands were run in order before the main command and the output of
\* the last one is the main command's input.
C4_FilePathIffNothingPiped ==
    pc = "main_wait" =>
        LET pre   == Get(converter, "first")
            piped == pre # <<>> /\ captured # Some(<<>>)
        IN  /\ cmd = IF piped THEN MainBase ELSE MainBase \o <<filename>>
            /\ \E p \in running : running = {p} /\ p.step = log[Len(log)]
            /\ pre = <<>> =>
                   /\ captured = None
                   /\ \A p \in running : p.input = None
            /\ pre # <<>> =>
                   /\ ~IsNone(captured)
                   /\ \A p \in running : p.input = captured
                   /\ Len(log) > Len(pre)
                   /\ \A j \in 1..Len(pre) :
                          log[Len(log) - Len(pre) - 1 + j]
                              = <<name, "first", j>>

\* C4, its case: a converter with a first entry whose last pre-command
\* printed nothing; the main command is given the file path.
C4_Witness ==
    /\ pc = "main_wait"
    /\ Get(converter, "first") # <<>>
    /\ captured = Some(<<>>)
    /\ cmd[Len(cmd)] = filename

\* C5 as stated: the watch loop starts waiting without converting and calls
\* markdown_to_other once per observed change, so that while it waits there
\* have been as many calls as observed changes.
C5_OneRunPerChange ==
    (inTry /\ pc = "w_poll") => runs = observed

\* C5 as amended: the first poll is followed by a call of markdown_to_other
\* although nothing changed; after it there is one call per poll that reads
\* another time than the poll before, and none on a poll that reads the same
\* time: n observed changes make n + 1 calls.
C5_OneRunPerChangeAfterFirst ==
    inTry =>
        CASE pc = "w_poll"  -> runs = IF IsNone(lastRead) THEN 0
                                      ELSE observed + 1
          [] pc = "w_run"   -> runs = observed
          [] pc \in Terminal -> runs \in {observed, observed + 1}
          [] OTHER          -> runs = observed + 1

\* C5, its case: two observed changes, three completed calls.
C5_Witness ==
    inTry /\ pc = "w_recurse" /\ observed = 2 /\ runs = 3

\* C6: watch mode ends only by an interrupt, with exit status 0: no number of
\* iterations ends the loop or crashes it.  (Stated with the benefit of the
\* doubt for an external command that cannot be launched.)
C6_WatchEndsOnlyByInterrupt ==
    (inTry /\ pc \in Terminal /\ cause # "LaunchError") =>
        (cause = "KeyboardInterrupt" /\ exitStatus = Some(0))

\* C7 as stated: after a command of a converter failed, by a non-zero exit
\* or by not starting, the main conversion of every following enabled
\* converter is still attempted: a run does not end with one left out.
C7_FailureNeverStopsRun ==
    /\ (RunnerReturned /\ failed # 0) => MainsStarted = ActiveNames
    /\ (pc = "crashed" /\ cause = "LaunchError") => NextActive(ci) = 0

\* C7 as amended: a non-zero exit status never ends the run: the main
\* conversion of every following enabled converter has been attempted or is
\* still ahead, the process ends early only because a command could not be
\* launched or the run was interrupted, and a run that returns has attempted
\* the main conversion of every enabled converter.
C7_NonZeroExitNeverStopsRun ==
    /\ failed # 0 => \A j \in (failed + 1)..Len(CONVERTERS) :
           ~Disabled(j) =>
               \/ In(CONVERTERS[j].name, MainsStarted)
               \/ /\ pc \notin Terminal
                  /\ ci < j \/ (ci = j /\ pc \in {"first", "first_wait", "main"})
               \/ /\ pc \in Terminal
                  /\ cause \in {"LaunchError", "KeyboardInterrupt"}
    /\ failed # 0 => cause # "CalledProcessError"
    /\ RunnerReturned => MainsStarted = ActiveNames

\* C7, its case: a command of one converter exited non-zero and the main
\* conversion of a later converter was attempted; the run completed.
C7_Witness ==
    /\ RunnerReturned
    /\ failed # 0
    /\ \E j \in (failed + 1)..Len(CONVERTERS) :
           In(CONVERTERS[j].name, MainsStarted)

\* C8: loading the registry is fatal, before any selection, help or
\* conversion, when the configuration file does not exist and when a section
\* lacks the extension or the command key.
C8_MissingConfigIsFatal ==
    (IsNone(config)
        \/ \E i \in 1..Len(Sections(config)) :
               ~({"extension", "command"} \subseteq DOMAIN Sections(config)[i].opts))
    => /\ pc \in {"read", "crashed"}
       /\ IsNone(helpText) /\ runs = 0 /\ arguments = <<>>
       /\ pc = "crashed" => exitStatus = Some(1)

\* C9: the external processes of a run start in one total order, at most one
\* running at a time: enabled converters in registry order, and for each its
\* pre-commands in listed order, its main command, its post-commands in
\* listed order; a process starts only when the one before has exited.
C9_OneProcessInPlanOrder ==
    SelectionDone =>
        /\ [i \in 1..Len(CONVERTERS) |-> CONVERTERS[i].name]
               = [i \in 1..Len(Sections(config)) |-> Sections(config)[i].name]
        /\ Cardinality(running) <= 1
        /\ \A p \in running : p.step = log[Len(log)]
        /\ pc \in {"first", "main", "also", "mto_for", "w_recurse"}
               => running = {}
        /\ LET plan == PlanFrom(1)
           IN  /\ Len(log) <= Len(plan)
               /\ log = SubSeq(plan, 1, Len(log))
               /\ RunnerReturned => log = plan

\* C9, its case: a run of two enabled converters has returned, one of them
\* with two pre-commands and two post-commands: six processes, one after the
\* other.
C9_Witness ==
    /\ Len(ActiveNames) >= 2
    /\ RunnerReturned
    /\ Len(log) >= 6
    /\ \E i \in 1..Len(log) : log[i][2] = "first" /\ log[i][3] = 2
    /\ \E i \in 1..Len(log) : log[i][2] = "also" /\ log[i][3] = 2

\* C10: in watch mode no modification is lost: the process does not end,
\* other than by an interrupt, with a change of the file that no call of
\* markdown_to_other came after.  (Stated with the benefit of the doubt for
\* an external command that cannot be launched.)
C10_NoModificationLost ==
    (inTry /\ pc \in Terminal /\ dirty) =>
        cause \in {"KeyboardInterrupt", "LaunchError"}

====
